---- MODULE Spec2Model ----
(***************************************************************************)
(* A model of the muze thought journal: application start-up               *)
(* (src/state.py, src/vectorizer.py), the HTTP middleware chain and its    *)
(* routes (src/server), and the Thought repository over database sessions  *)
(* (src/database/models/thought.py).                                       *)
(***************************************************************************)
EXTENDS Integers, Sequences, FiniteSets, TLC

\* ------------------------------------------------------------------ bounds
MaxRequests == 2        \* HTTP requests handled in one behaviour
MaxRepoSessions == 1    \* sessions a direct repository caller opens in turn
MaxRows == 3            \* Thought rows inserted in one behaviour

\* ------------------------------------------------------- program constants
DefaultOffset == 0
DefaultLimit == 10

Requests == 1 .. MaxRequests
SessionIds == 1 .. (MaxRequests + MaxRepoSessions)
None == "None"
\* An attribute that is not set: a Thought's id and timestamps before the
\* INSERT, a request without a session.
Null == 0

\* Text values a form's `content` field, or a caller of create, can carry.
Strings == {"", "hello"}
\* A form either lacks the field or carries one of the strings.
Forms == {None} \cup Strings
\* Messages of the exceptions the start-up steps can raise.
Messages == {"db unreachable", "pgai failure"}

VARIABLES
    appPhase,       \* lifespan: not_started, starting, started, failed
    startupLog,     \* the start-up steps invoked so far, in order
    startupRaised,  \* the exception startup() raised (NotRaised: none)
    failure,        \* the exception a start-up step raised (NoFailure: none)
    worker,         \* embedding worker: none, running, never_awaited
    infra,          \* what start-up has set up in the database
    now,            \* the clock read by datetime.utcnow
    nextId,         \* source of fresh uuid4 strings
    nextSession,    \* source of fresh session objects
    committed,      \* the committed rows of table thoughts
    sess,           \* every session: status, owner, pending rows, history
    req,            \* every HTTP request: position in the chain, request.state
    entity,         \* what the last Thought.create returned and what it saw
    query,          \* what the last Thought.get_all calls returned
    process         \* os.environ, the .env file and the configuration built

vars == <<appPhase, startupLog, startupRaised, failure, worker, infra, now,
          process,          nextId, nextSession, committed, sess, req, entity, query>>

appVars == <<appPhase, startupLog, startupRaised, failure, worker, infra>>
dbVars == <<nextId, nextSession, committed, sess>>

Min(a, b) == IF a < b THEN a ELSE b

\* ================================================================ start-up
\* src/state.py:47-50: the four awaited calls of AppState.startup, in order.
StartupSteps == <<"database.initialize", "vectorizer.install",
                  "vectorizer.create_vectorizer", "vectorizer.run_worker">>

\* src/state.py:19-22: AppStateException(type, message).
AppStateException(type, message) == [type |-> type, message |-> message]

\* A startup() that raises its error with a message of its own.
startup_except_generic(message) ==
    AppStateException("startup_failed", "startup failed")

\* src/state.py:51-52: the exception startup() raises for a failure whose
\* str() is message.
startup_except(message) == AppStateException("startup_failed", message)

NotRaised == AppStateException(None, None)
NoFailure == [step |-> None, message |-> None]


\* The effect of a start-up step that returned normally.
step_effect(step) ==
    CASE step = "database.initialize" -> "schema"
      [] step = "vectorizer.install" -> "extension"
      [] step = "vectorizer.create_vectorizer" -> "vectorizer"
      [] OTHER -> "worker_called"

\* src/server/__init__.py:20-21: the lifespan enters and awaits startup().
lifespan_enter ==
    /\ appPhase = "not_started"
    /\ appPhase' = "starting"
    /\ UNCHANGED <<startupLog, startupRaised, failure, worker, infra, now,
                   process, dbVars, req, entity, query>>

\* The next step startup() is to call: none while it is inside
\* worker.run() or after the fourth call.
next_step ==
    IF Len(startupLog) < Len(StartupSteps) /\ worker # "running"
    THEN StartupSteps[Len(startupLog) + 1]
    ELSE None

\* src/state.py:46-52: what startup() does when the step it called raises
\* an Exception with message m: nothing further is called.
startup_fail(step, m) ==
    /\ failure' = [step |-> step, message |-> m]
    /\ startupRaised' = startup_except(m)
    /\ appPhase' = "failed"

\* src/state.py:47-49: one of the first three steps is called; it returns
\* or raises.
startup_step ==
    /\ appPhase = "starting"
    /\ next_step \notin {None, "vectorizer.run_worker"}
    /\ startupLog' = Append(startupLog, next_step)
    /\ \E ok \in BOOLEAN, m \in Messages :
         IF ok
         THEN /\ infra' = infra \cup {step_effect(next_step)}
              /\ UNCHANGED <<appPhase, startupRaised, failure>>
         ELSE /\ startup_fail(next_step, m)
              /\ UNCHANGED infra
    /\ UNCHANGED <<worker, now, process, dbVars, req, entity, query>>

\* src/vectorizer.py:41-42: Worker(self.database_url); worker.run().  The
\* pgai Worker is not part of this repository.  If its run() is a coroutine
\* function, the call builds a coroutine that is never awaited: no worker
\* runs and run_worker returns.  If run() is synchronous, the call enters
\* the worker loop inside startup().  Constructing the worker may raise.
run_worker(kind) ==
    CASE kind = "coroutine" -> "never_awaited"
      [] kind = "blocking" -> "running"
      [] OTHER -> "none"

startup_run_worker ==
    /\ appPhase = "starting"
    /\ next_step = "vectorizer.run_worker"
    /\ startupLog' = Append(startupLog, next_step)
    /\ \E kind \in {"coroutine", "blocking", "raises"}, m \in Messages :
         /\ worker' = run_worker(kind)
         /\ IF kind = "raises"
            THEN startup_fail(next_step, m) /\ UNCHANGED infra
            ELSE /\ infra' = infra \cup {step_effect(next_step)}
                 /\ UNCHANGED <<appPhase, startupRaised, failure>>
    /\ UNCHANGED <<now, process, dbVars, req, entity, query>>

\* src/vectorizer.py:42 with a synchronous run(): the loop runs inside
\* startup() until it raises; it never returns normally.
worker_loop_raises ==
    /\ appPhase = "starting"
    /\ worker = "running"
    /\ \E m \in Messages : startup_fail("vectorizer.run_worker", m)
    /\ worker' = "none"
    /\ UNCHANGED <<startupLog, infra, now, process, dbVars, req, entity, query>>

\* src/state.py:50 returns, src/server/__init__.py:22: startup() has run all
\* four calls, the lifespan yields and the server accepts requests.
lifespan_yield ==
    /\ appPhase = "starting"
    /\ Len(startupLog) = Len(StartupSteps)
    /\ worker # "running"
    /\ appPhase' = "started"
    /\ UNCHANGED <<startupLog, startupRaised, failure, worker, infra, now,
                   process, dbVars, req, entity, query>>

\* ========================================================== database layer
\* A session the database layer has not handed out yet.
NoSession == [status |-> "unused", owner |-> None, request |-> Null,
              pending |-> {}, rolledBack |-> FALSE]

\* AsyncDatabase.session(): every acquisition yields a new session, owned by
\* the acquirer until it is closed; nothing is committed automatically.
AsyncDatabase_session(S, id, owner, r) ==
    [S EXCEPT ![id] = [status |-> "open", owner |-> owner, request |-> r,
                       pending |-> {}, rolledBack |-> FALSE]]

\* The database as one value: the committed table and the sessions.
DB == [committed |-> committed, sess |-> sess]

\* AsyncSession.add + flush: the row is written inside the session's
\* transaction, visible to that session alone.  The row records who owns
\* the session that wrote it.
session_flush(db, s, row) ==
    [db EXCEPT !.sess[s].pending =
        @ \cup {[row EXCEPT !.via = db.sess[s].owner,
                            !.request = db.sess[s].request]}]

\* AsyncSession.commit: the transaction's rows become part of the table.
session_commit(db, s) ==
    [committed |-> db.committed \cup db.sess[s].pending,
     sess |-> [db.sess EXCEPT ![s].pending = {}]]

\* AsyncSession.rollback: the transaction's rows are discarded.
session_rollback(db, s) ==
    [db EXCEPT !.sess[s].pending = {}, !.sess[s].rolledBack = TRUE]

\* AsyncSession.close: the connection is released, an open transaction is
\* discarded.
session_close(db, s) ==
    [db EXCEPT !.sess[s].pending = {}, !.sess[s].status = "closed"]

\* The rows a query run in session s sees.
visible(db, s) == db.committed \cup db.sess[s].pending

\* ======================================================= Thought repository
\* src/database/models/thought.py:41: Thought(content=content); the column
\* defaults (lines 15-24) are not applied until the INSERT.
Thought(content) ==
    [id |-> Null, content |-> content, created_at |-> Null,
     updated_at |-> Null, via |-> None, request |-> Null]

\* src/database/models/thought.py:15-24: the defaults the INSERT applies:
\* a fresh uuid4 string, and datetime.utcnow for both timestamps.
insert_defaults(entry, id, t) ==
    [entry EXCEPT !.id = id, !.created_at = t, !.updated_at = t]

\* A create that commits instead of leaving the transaction to its caller.
Thought_create_committing(db, content, s, id, t) ==
    LET entry == insert_defaults(Thought(content), id, t)
    IN  [db |-> session_commit(session_flush(db, s, entry), s), entry |-> entry]

\* src/database/models/thought.py:40-44: Thought.create builds the entry,
\* adds it to the session, flushes and returns it.
Thought_create(db, content, s, id, t) ==
    LET entry == insert_defaults(Thought(content), id, t)
    IN  [db |-> session_flush(db, s, entry), entry |-> entry]

\* src/database/models/thought.py:61: ORDER BY created_at DESC.  SQL leaves
\* the order of rows with equal keys to the database: every arrangement of
\* the rows that is descending in created_at is a possible outcome.
order_by_created_at_desc(rows) ==
    {f \in [1 .. Cardinality(rows) -> rows] :
        /\ \A i, j \in 1 .. Cardinality(rows) : i # j => f[i] # f[j]
        /\ \A i, j \in 1 .. Cardinality(rows) :
              i < j => f[i].created_at >= f[j].created_at}

\* src/database/models/thought.py:62: OFFSET.
sql_offset(seq, offset) == SubSeq(seq, offset + 1, Len(seq))

\* src/database/models/thought.py:63: LIMIT.
sql_limit(seq, limit) == SubSeq(seq, 1, Min(limit, Len(seq)))

\* src/database/models/thought.py:59-65: Thought.get_all, given the order
\* the database produced for the rows the session sees.
Thought_get_all(ordered, offset, limit) ==
    sql_limit(sql_offset(ordered, offset), limit)

NoEntity == [entry |-> Thought(None), content |-> None, session |-> Null,
             ok |-> FALSE]
NoQuery == [kind |-> "none", rows |-> {}, offset |-> 0, limit |-> 0,
            result |-> <<>>, next |-> <<>>]

\* ------------------------------------------------ direct repository callers
\* A session its caller has closed and let go of.
Dropped == [NoSession EXCEPT !.status = "closed", !.owner = "repo"]
RepoSessions == {s \in SessionIds : sess[s].owner = "repo"}
OpenRepo == {s \in RepoSessions : sess[s].status = "open"}

\* src/tests/database/test_thoughts.py:29-32: a caller acquires a session,
\* once the one it held before is closed.
repo_open ==
    /\ Cardinality(RepoSessions) < MaxRepoSessions
    /\ OpenRepo = {}
    /\ nextSession \in SessionIds
    /\ sess' = AsyncDatabase_session(sess, nextSession, "repo", Null)
    /\ nextSession' = nextSession + 1
    /\ query' = NoQuery
    /\ entity' = NoEntity
    /\ UNCHANGED <<appVars, now, process, nextId, committed, req>>

\* src/tests/database/test_thoughts.py:38-39: Thought.create(content,
\* session).  The flush can fail in the database: the DatabaseException
\* (thought.py:45-49) leaves no entity.
repo_create(s, content) ==
    /\ s \in OpenRepo
    /\ nextId <= MaxRows
    /\ \E ok \in BOOLEAN :
         IF ok
         THEN LET r == Thought_create(DB, content, s, nextId, now)
              IN  /\ committed' = r.db.committed
                  /\ sess' = r.db.sess
                  /\ entity' = [entry |-> r.entry, content |-> content,
                                session |-> s, ok |-> TRUE]
                  /\ nextId' = nextId + 1
         ELSE /\ entity' = NoEntity
              /\ UNCHANGED <<committed, sess, nextId>>
    /\ query' = NoQuery
    /\ UNCHANGED <<appVars, now, process, nextSession, req>>

\* src/server/api/v0/thoughts/create_thought.py:54: the caller of create
\* decides the transaction boundary: it commits ...
repo_commit(s) ==
    /\ s \in OpenRepo
    /\ committed' = session_commit(DB, s).committed
    /\ sess' = session_commit(DB, s).sess
    /\ query' = NoQuery
    /\ entity' = NoEntity
    /\ UNCHANGED <<appVars, now, process, nextId, nextSession, req>>

\* src/tests/database/test_thoughts.py:31-34: ... or rolls back, and leaves
\* the `async with`, which closes the session.
repo_rollback(s) ==
    /\ s \in OpenRepo
    /\ committed' = session_close(session_rollback(DB, s), s).committed
    /\ sess' = [session_close(session_rollback(DB, s), s).sess
                   EXCEPT ![s] = Dropped]
    /\ query' = NoQuery
    /\ entity' = NoEntity
    /\ UNCHANGED <<appVars, now, process, nextId, nextSession, req>>

\* datetime.utcnow (thought.py:23-24) reads a clock that may or may not
\* have advanced between two inserts (readings beyond the number of
\* inserts tell nothing more).
tick ==
    /\ now < nextId
    /\ now' = now + 1
    /\ entity' = NoEntity
    /\ query' = NoQuery
    /\ UNCHANGED <<appVars, process, dbVars, req>>

Offsets == 0 .. MaxRows
Limits == 0 .. MaxRows

\* src/database/models/thought.py:52-65: one call of get_all in session s,
\* with any offset and limit.
repo_get_all(s) ==
    /\ s \in OpenRepo
    /\ query = NoQuery
    /\ \E ord \in order_by_created_at_desc(visible(DB, s)) :
         \E offset \in Offsets, limit \in Limits :
           query' = [kind |-> "get_all", rows |-> visible(DB, s),
                     offset |-> offset, limit |-> limit,
                     result |-> Thought_get_all(ord, offset, limit),
                     next |-> <<>>]
    /\ UNCHANGED <<appVars, now, process, dbVars, req, entity>>

\* Two consecutive pages of the same rows: get_all(offset=0, limit) and
\* get_all(offset=limit, limit), each its own SELECT.
repo_get_pages(s) ==
    /\ s \in OpenRepo
    /\ query = NoQuery
    /\ \E ord1, ord2 \in order_by_created_at_desc(visible(DB, s)) :
         \E limit \in Limits \ {0} :
           query' = [kind |-> "pages", rows |-> visible(DB, s),
                     offset |-> 0, limit |-> limit,
                     result |-> Thought_get_all(ord1, 0, limit),
                     next |-> Thought_get_all(ord2, limit, limit)]
    /\ UNCHANGED <<appVars, now, process, dbVars, req, entity>>


\* ====================================================== HTTP application
\* src/server/__init__.py:64-66: the middleware in the order create_app
\* registers them.
Registered == <<"state_middleware", "span_middleware", "db_middleware">>

\* app.middleware("http")(f) puts f in front of the ones registered before
\* it: the middleware registered last is the outermost.
add_middleware(stack, f) == <<f>> \o stack

\* The chain a request passes, outermost first.
user_middleware ==
    add_middleware(add_middleware(add_middleware(<<>>, Registered[1]),
                                  Registered[2]), Registered[3])

Routes == {"create", "list", "up"}

NoResult == [kind |-> "none", status |-> 0, code |-> None,
             content |-> None, items |-> <<>>]
Response(status, code, content, items) ==
    [kind |-> "response", status |-> status, code |-> code,
     content |-> content, items |-> items]
Raised(exc) == [NoResult EXCEPT !.kind = "exception", !.code = exc]

NoRequest == [phase |-> "idle", route |-> None, form |-> None, depth |-> 0,
              state |-> <<>>, session |-> Null, hpc |-> "deps",
              result |-> NoResult, raised |-> FALSE, trace |-> <<>>]

\* The request.state attributes set so far, as a function from names.
setattr(state, name, value) == (name :> value) @@ state

\* src/server/deps.py:8-9: request.state.database.  Reading an attribute
\* that was never set raises AttributeError.
async_db(st) ==
    IF "database" \in DOMAIN st
    THEN [ok |-> TRUE, value |-> st["database"]]
    ELSE [ok |-> FALSE, value |-> Null]

\* src/server/deps.py:12-13: request.state.span.
span(st) ==
    IF "span" \in DOMAIN st
    THEN [ok |-> TRUE, value |-> st["span"]]
    ELSE [ok |-> FALSE, value |-> Null]

\* src/server/deps.py:16-17: request.state.app_state.
state(st) ==
    IF "app_state" \in DOMAIN st
    THEN [ok |-> TRUE, value |-> st["app_state"]]
    ELSE [ok |-> FALSE, value |-> Null]

\* src/server/__init__.py:53-61: an HTTPException becomes a JSON response
\* with the exception's status code and detail.
http_exception_handler(status, code) == Response(status, code, None, <<>>)

\* src/server/api/v0/thoughts/create_thought.py:40: the content field as
\* text, the empty text when the form lacks it.
form_content(form) == IF form = None THEN "" ELSE form

\* src/server/api/v0/thoughts/create_thought.py:43-51: the HTTPException
\* raised for empty content, inside the handler's try block.
handler_validate(content) ==
    IF content = ""
    THEN [raised |-> TRUE, status |-> 400, code |-> "EMPTY_CONTENT_ERROR"]
    ELSE [raised |-> FALSE, status |-> 0, code |-> None]

\* src/server/api/v0/thoughts/create_thought.py:57-62: `except Exception`
\* catches whatever the try block raised, the HTTPException of the
\* validation included, and raises the 500 in its place.
handler_except(exc) ==
    [raised |-> TRUE, status |-> 500, code |-> "THOUGHT_CREATE_ERROR"]

\* ------------------------------------------------------------ a request
InFlight(r) == req[r].phase \in {"down", "up"}

\* A request reaches the application once the lifespan has yielded.
request_arrive(r, route, form) ==
    /\ appPhase = "started"
    /\ req[r].phase = "idle"
    /\ route # "create" => form = None
    /\ IF r = 1 THEN TRUE ELSE req[r - 1].phase # "idle"
    /\ req' = [req EXCEPT ![r].phase = "down", ![r].route = route,
                          ![r].form = form]
    /\ UNCHANGED <<appVars, now, process, dbVars, entity, query>>

\* Whether middleware f is the next one request r enters.
Entering(r, f) ==
    /\ req[r].phase = "down"
    /\ req[r].depth < Len(user_middleware)
    /\ user_middleware[req[r].depth + 1] = f

\* Whether middleware f is the one request r's outcome returns through.
Leaving(r, f) ==
    /\ req[r].phase = "up"
    /\ req[r].depth > 0
    /\ user_middleware[req[r].depth] = f

enter(rq, f) ==
    [rq EXCEPT !.depth = @ + 1, !.trace = Append(@, <<"enter", f>>)]
leave(rq, f) ==
    [rq EXCEPT !.depth = @ - 1, !.trace = Append(@, <<"leave", f>>)]

\* src/server/__init__.py:25-27, up to call_next.
state_middleware_enter(r) ==
    /\ Entering(r, "state_middleware")
    /\ req' = [req EXCEPT ![r] =
                 [enter(@, "state_middleware") EXCEPT
                     !.state = setattr(@, "app_state", 1)]]
    /\ UNCHANGED <<appVars, now, process, dbVars, entity, query>>

\* src/server/__init__.py:27: the response or the exception of call_next
\* passes through.
state_middleware_leave(r) ==
    /\ Leaving(r, "state_middleware")
    /\ req' = [req EXCEPT ![r] = leave(@, "state_middleware")]
    /\ UNCHANGED <<appVars, now, process, dbVars, entity, query>>

\* src/server/__init__.py:29-32, up to call_next.
span_middleware_enter(r) ==
    /\ Entering(r, "span_middleware")
    /\ req' = [req EXCEPT ![r] =
                 [enter(@, "span_middleware") EXCEPT
                     !.state = setattr(@, "span", r)]]
    /\ UNCHANGED <<appVars, now, process, dbVars, entity, query>>

\* src/server/__init__.py:32-36: the response is returned; an exception is
\* logged on the span and raised again.
span_middleware_leave(r) ==
    /\ Leaving(r, "span_middleware")
    /\ req' = [req EXCEPT ![r] = leave(@, "span_middleware")]
    /\ UNCHANGED <<appVars, now, process, dbVars, entity, query>>

\* A db_middleware that keeps using the session of a request in flight.
db_middleware_acquire_shared(S, id, r) ==
    LET open == {s \in SessionIds :
                    S[s].status = "open" /\ S[s].owner = "request"}
    IN  IF open = {}
        THEN [sess |-> AsyncDatabase_session(S, id, "request", r),
              session |-> id, next |-> id + 1]
        ELSE [sess |-> S, session |-> CHOOSE s \in open : TRUE, next |-> id]

\* src/server/__init__.py:39: `async with state.database.session() as
\* session`: each request acquires a session of its own.
db_middleware_acquire(S, id, r) ==
    [sess |-> AsyncDatabase_session(S, id, "request", r), session |-> id,
     next |-> id + 1]

\* src/server/__init__.py:38-42, up to call_next.
db_middleware_enter(r) ==
    /\ Entering(r, "db_middleware")
    /\ nextSession \in SessionIds
    /\ LET a == db_middleware_acquire(sess, nextSession, r)
       IN  /\ sess' = a.sess
           /\ nextSession' = a.next
           /\ req' = [req EXCEPT ![r] =
                        [enter(@, "db_middleware") EXCEPT
                            !.session = a.session,
                            !.state = setattr(@, "db", a.session)]]
    /\ UNCHANGED <<appVars, now, process, nextId, committed, entity, query>>

\* A db_middleware whose except clause does not roll back.
db_middleware_teardown_no_rollback(db, s, raised) == session_close(db, s)

\* src/server/__init__.py:43-48: on an exception the session is rolled back
\* before the exception is raised again; the session is closed in every
\* case.
db_middleware_teardown(db, s, raised) ==
    session_close(IF raised THEN session_rollback(db, s) ELSE db, s)

db_middleware_leave(r) ==
    /\ Leaving(r, "db_middleware")
    /\ LET db == db_middleware_teardown(DB, req[r].session,
                                        req[r].result.kind = "exception")
       IN  /\ committed' = db.committed
           /\ sess' = db.sess
    /\ req' = [req EXCEPT ![r] = leave(@, "db_middleware")]
    /\ UNCHANGED <<appVars, now, process, nextId, nextSession, entity, query>>

\* The outermost layer (starlette's ServerErrorMiddleware): an exception
\* that passed every middleware becomes a plain 500 response.
server_respond(r) ==
    /\ req[r].phase = "up"
    /\ req[r].depth = 0
    /\ req' = [req EXCEPT
                 ![r].phase = "done",
                 ![r].raised = (req[r].result.kind = "exception"),
                 ![r].result =
                     IF @.kind = "exception"
                     THEN Response(500, "Internal Server Error", None, <<>>)
                     ELSE @]
    /\ UNCHANGED <<appVars, now, process, dbVars, entity, query>>

\* The route's outcome starts its way back through the middleware.
respond(r, result) ==
    req' = [req EXCEPT ![r].phase = "up", ![r].result = result]

\* A create route that takes the session the middleware opened and stores
\* whatever content it is given.
create_thought_handler_unchecked(r) ==
    /\ nextId <= MaxRows
    /\ LET s == req[r].session
           content == form_content(req[r].form)
           c == Thought_create(DB, content, s, nextId, now)
       IN  /\ committed' = session_commit(c.db, s).committed
           /\ sess' = session_commit(c.db, s).sess
           /\ nextId' = nextId + 1
           /\ respond(r, Response(200, "OK", c.entry.content, <<>>))
           /\ UNCHANGED nextSession

\* src/server/api/v0/thoughts/create_thought.py:20-62, one step of the
\* create route.  Its dependencies (lines 22-23) are resolved before the
\* body runs; an exception they raise is not raised inside the body's try
\* block.  The body runs up to the flush inside Thought.create (hpc "deps"),
\* then commits and returns (hpc "created").
create_thought_handler(r) ==
    LET s == async_db(req[r].state).value
    IN
    IF ~(async_db(req[r].state).ok /\ span(req[r].state).ok)
    THEN respond(r, Raised("AttributeError")) /\ UNCHANGED dbVars
    ELSE IF req[r].hpc = "deps"
    THEN LET content == form_content(req[r].form)
             v == handler_validate(content)
         IN  IF v.raised
             THEN /\ respond(r, http_exception_handler(
                                   handler_except(v).status,
                                   handler_except(v).code))
                  /\ UNCHANGED dbVars
             ELSE \E ok \in BOOLEAN :
                    IF ok /\ nextId <= MaxRows
                    THEN LET c == Thought_create(DB, content, s, nextId, now)
                         IN  /\ committed' = c.db.committed
                             /\ sess' = c.db.sess
                             /\ nextId' = nextId + 1
                             /\ req' = [req EXCEPT
                                   ![r].hpc = "created",
                                   ![r].result.content = c.entry.content]
                             /\ UNCHANGED nextSession
                    ELSE /\ respond(r, http_exception_handler(
                                          handler_except(v).status,
                                          handler_except(v).code))
                         /\ UNCHANGED dbVars
    ELSE \E ok \in BOOLEAN :
           IF ok
           THEN /\ committed' = session_commit(DB, s).committed
                /\ sess' = session_commit(DB, s).sess
                /\ respond(r, Response(200, "OK", req[r].result.content,
                                       <<>>))
                /\ UNCHANGED <<nextId, nextSession>>
           ELSE /\ respond(r, http_exception_handler(
                                 handler_except(ok).status,
                                 handler_except(ok).code))
                /\ UNCHANGED dbVars

\* src/server/pages/list.py:22-63: the dependencies, then get_all with its
\* default offset and limit, rendered; any exception of the body becomes
\* the 500 of the route.
list_handler(r) ==
    /\ IF ~(async_db(req[r].state).ok /\ span(req[r].state).ok)
       THEN respond(r, Raised("AttributeError"))
       ELSE \E ok \in BOOLEAN,
               ord \in order_by_created_at_desc(
                          visible(DB, async_db(req[r].state).value)) :
              IF ok
              THEN respond(r, Response(200, "OK", None,
                       Thought_get_all(ord, DefaultOffset, DefaultLimit)))
              ELSE respond(r, http_exception_handler(500,
                                                     "LIST_RENDER_ERROR"))
    /\ UNCHANGED dbVars

\* src/server/__init__.py:126-128: GET /up.
up(r) ==
    /\ respond(r, Response(200, "OK", None, <<>>))
    /\ UNCHANGED dbVars

\* The router, inside every middleware, runs the route of the request.  An
\* HTTPException the handler raises is turned into a response here
\* (http_exception_handler); any other exception, one raised by a
\* dependency included, propagates outwards.
route_call(r) ==
    /\ req[r].phase = "down"
    /\ req[r].depth = Len(user_middleware)
    /\ IF req[r].route = "create" THEN create_thought_handler(r)
       ELSE IF req[r].route = "list" THEN list_handler(r)
       ELSE up(r)
    /\ UNCHANGED <<appVars, now, process, entity, query>>

\* ============================================================ configuration
\* src/config.py:19,25: the names of the two required secrets.
SecretNames == {"ANTHROPIC_API_KEY", "OPENAI_API_KEY"}

\* The values a variable can have in os.environ or in the .env file: not
\* set (None), set to the empty text, or set to a key.
EnvValues == {None, "", "sk-env"}
FileValues == {None, "", "sk-file"}

\* The process environment os.environ.
Environments == [SecretNames -> EnvValues]
\* The .env file of the working directory: absent, or the variables it sets.
NoFile == [present |-> FALSE, values |-> [k \in SecretNames |-> None]]
DotenvFiles ==
    {NoFile} \cup {[present |-> TRUE, values |-> v] :
                      v \in [SecretNames -> FileValues]}

\* src/config.py:19,25: os.getenv(name): None for a variable that is not set.
getenv(environ, name) == environ[name]

\* Python's `not value` for a str | None: true of None and of the empty text.
not(value) == value \in {None, ""}

\* src/config.py:31,49: load_dotenv(): every variable the .env file sets and
\* os.environ does not have is added to os.environ (override is False: a
\* variable that is set, even to the empty text, is kept); no file, no
\* change.
load_dotenv(environ, file) ==
    [k \in SecretNames |->
        IF file.present /\ environ[k] = None /\ file.values[k] # None
        THEN file.values[k]
        ELSE environ[k]]

\* What a construction leaves behind: the exception raised (None: none),
\* the two attributes of the object and os.environ afterwards.
Constructed(raised, anthropic, openai, environ) ==
    [raised |-> raised, anthropic_api_key |-> anthropic,
     openai_api_key |-> openai, environ |-> environ]

\* src/config.py:16-31: Secrets.__init__ reads and checks ANTHROPIC_API_KEY
\* (lines 19-22), then OPENAI_API_KEY (lines 25-28), and calls load_dotenv()
\* last (line 31); a ValueError leaves before the load.
Secrets_init(environ, file) ==
    LET anthropic_key == getenv(environ, "ANTHROPIC_API_KEY")
        openai_key == getenv(environ, "OPENAI_API_KEY")
    IN  IF not(anthropic_key)
        THEN Constructed("ANTHROPIC_API_KEY environment variable must be set",
                         None, None, environ)
        ELSE IF not(openai_key)
        THEN Constructed("OPENAI_API_KEY environment variable must be set",
                         anthropic_key, None, environ)
        ELSE Constructed(None, anthropic_key, openai_key,
                         load_dotenv(environ, file))

\* src/config.py:47-77: Config.__init__ calls load_dotenv() first (line 49)
\* and constructs its Secrets last (line 77); the fields between them do not
\* touch the two secrets.
Config_init(environ, file) == Secrets_init(load_dotenv(environ, file), file)

\* The process before anything is constructed, with an empty environment
\* and no .env file.
NoProcess ==
    [pc |-> "idle", environ |-> [k \in SecretNames |-> None],
     file |-> NoFile, caller |-> None,
     result |-> Constructed(None, None, None, [k \in SecretNames |-> None])]

\* Secrets() constructed on its own.
construct_Secrets ==
    /\ process.pc = "idle"
    /\ process' = [process EXCEPT
                      !.pc = "constructed", !.caller = "Secrets",
                      !.result = Secrets_init(process.environ, process.file)]
    /\ UNCHANGED <<appVars, now, dbVars, req, entity, query>>

\* Config() constructed, and its Secrets within it.
construct_Config ==
    /\ process.pc = "idle"
    /\ process' = [process EXCEPT
                      !.pc = "constructed", !.caller = "Config",
                      !.result = Config_init(process.environ, process.file)]
    /\ UNCHANGED <<appVars, now, dbVars, req, entity, query>>

\* =========================================================== specifications
Init ==
    /\ appPhase = "not_started"
    /\ startupLog = <<>>
    /\ startupRaised = NotRaised
    /\ failure = NoFailure
    /\ worker = "none"
    /\ infra = {}
    /\ now = 1
    /\ nextId = 1
    /\ nextSession = 1
    /\ committed = {}
    /\ sess = [s \in SessionIds |-> NoSession]
    /\ req = [r \in Requests |-> NoRequest]
    /\ entity = NoEntity
    /\ query = NoQuery
    /\ process = NoProcess

\* The application: start-up, then requests.
Next ==
    \/ lifespan_enter
    \/ startup_step
    \/ startup_run_worker
    \/ worker_loop_raises
    \/ lifespan_yield
    \/ \E r \in Requests, route \in Routes, form \in Forms :
         request_arrive(r, route, form)
    \/ \E r \in Requests : state_middleware_enter(r)
    \/ \E r \in Requests : span_middleware_enter(r)
    \/ \E r \in Requests : db_middleware_enter(r)
    \/ \E r \in Requests : route_call(r)
    \/ \E r \in Requests : state_middleware_leave(r)
    \/ \E r \in Requests : span_middleware_leave(r)
    \/ \E r \in Requests : db_middleware_leave(r)
    \/ \E r \in Requests : server_respond(r)

Spec == Init /\ [][Next]_vars

\* The repository on its own: callers that create, commit and roll back.
NextRepo ==
    \/ repo_open
    \/ \E s \in SessionIds, c \in Strings : repo_create(s, c)
    \/ \E s \in SessionIds : repo_commit(s)
    \/ \E s \in SessionIds : repo_rollback(s)
    \/ tick

SpecRepo == Init /\ [][NextRepo]_vars

\* Thought.get_all on its own: the table holds any rows 1..n, each with any
\* reading of the clock as its created_at, and a caller with an open
\* session queries it.
Tables ==
    UNION {{{insert_defaults([Thought("hello") EXCEPT !.via = "repo"],
                             i, stamp[i]) : i \in 1 .. n} :
              stamp \in [1 .. n -> 1 .. MaxRows]} : n \in 0 .. MaxRows}

InitQuery ==
    /\ appPhase = "not_started"
    /\ startupLog = <<>>
    /\ startupRaised = NotRaised
    /\ failure = NoFailure
    /\ worker = "none"
    /\ infra = {}
    /\ now = 1
    /\ committed \in Tables
    /\ nextId = Cardinality(committed) + 1
    /\ nextSession = 2
    /\ sess = AsyncDatabase_session([s \in SessionIds |-> NoSession], 1,
                                    "repo", Null)
    /\ req = [r \in Requests |-> NoRequest]
    /\ entity = NoEntity
    /\ query = NoQuery
    /\ process = NoProcess

NextQuery ==
    \/ \E s \in SessionIds : repo_get_all(s)
    \/ \E s \in SessionIds : repo_get_pages(s)

SpecQuery == InitQuery /\ [][NextQuery]_vars

\* The configuration on its own: any environment, any .env file, and a
\* caller that constructs Secrets or Config.
InitConfig ==
    /\ appPhase = "not_started"
    /\ startupLog = <<>>
    /\ startupRaised = NotRaised
    /\ failure = NoFailure
    /\ worker = "none"
    /\ infra = {}
    /\ now = 1
    /\ nextId = 1
    /\ nextSession = 1
    /\ committed = {}
    /\ sess = [s \in SessionIds |-> NoSession]
    /\ req = [r \in Requests |-> NoRequest]
    /\ entity = NoEntity
    /\ query = NoQuery
    /\ \E environ \in Environments, file \in DotenvFiles :
          process = [NoProcess EXCEPT !.environ = environ, !.file = file]

NextConfig ==
    \/ construct_Secrets
    \/ construct_Config

SpecConfig == InitConfig /\ [][NextConfig]_vars

\* =================================================================== claims
Done(r) == req[r].phase = "done"
Content(r) == form_content(req[r].form)
AllRows == committed \cup UNION {sess[s].pending : s \in SessionIds}
\* Whether request r is inside middleware f: entered and not yet left.
Inside(r, f) == \E i \in 1 .. req[r].depth : user_middleware[i] = f

\* C1: every POST /api/v0/thoughts whose content is missing or empty is
\* answered with status 400 and code EMPTY_CONTENT_ERROR.
C1_EmptyContentIs400 ==
    \A r \in Requests :
        (Done(r) /\ req[r].route = "create" /\ Content(r) = "")
            => (req[r].result.status = 400
                /\ req[r].result.code = "EMPTY_CONTENT_ERROR")

C3_CreateSucceeds ==
    \A r \in Requests :
        (Done(r) /\ req[r].route = "create" /\ Content(r) # "")
            => (/\ req[r].result.status = 200
                /\ req[r].result.content = Content(r)
                /\ \E row \in committed :
                      row.request = r /\ row.content = Content(r))

\* C4: a failed request commits nothing: once a request has ended in an
\* error response or in an exception, the table holds no row its session
\* wrote, and when an exception left db_middleware the session was rolled
\* back (and closed) before the exception went on.
C4_FailedNeverCommits ==
    \A r \in Requests :
        /\ (Done(r) /\ req[r].result.status >= 400)
              => \A row \in committed : row.request # r
        /\ (/\ req[r].session # Null
            /\ ~Inside(r, "db_middleware")
            /\ req[r].result.kind = "exception" \/ req[r].raised)
              => (/\ sess[req[r].session].rolledBack
                  /\ sess[req[r].session].status = "closed"
                  /\ sess[req[r].session].pending = {})

C4_Witness ==
    \E r \in Requests :
        /\ Done(r) /\ req[r].raised /\ req[r].route = "create"
        /\ req[r].result.status = 500
        /\ sess[req[r].session].rolledBack

\* C5: startup() calls database.initialize, vectorizer.install,
\* vectorizer.create_vectorizer, vectorizer.run_worker in that order; when
\* one of them fails no later one is called, startup() raises one
\* AppStateException of type startup_failed carrying the failure's message,
\* and no request is ever accepted.
C5_StartupFailure ==
    /\ Len(startupLog) <= Len(StartupSteps)
    /\ startupLog = SubSeq(StartupSteps, 1, Len(startupLog))
    /\ appPhase # "failed"
          => (failure = NoFailure /\ startupRaised = NotRaised)
    /\ appPhase = "failed"
          => (/\ failure.step = startupLog[Len(startupLog)]
              /\ startupRaised =
                     AppStateException("startup_failed", failure.message)
              /\ \A r \in Requests : req[r].phase = "idle")

C5_Witness ==
    /\ appPhase = "failed"
    /\ failure = [step |-> "vectorizer.install", message |-> "pgai failure"]
    /\ Len(startupLog) = 2

\* C6: when every start-up step succeeds, run_worker launches the worker
\* without blocking: the worker loop never holds startup() up, and once the
\* application is started the worker is running.
C6_WorkerLaunchedStartupReturns ==
    /\ ~(appPhase = "starting" /\ worker = "running")
    /\ appPhase = "started" => worker = "running"

\* C7: every request enters state_middleware, then span_middleware, then
\* db_middleware before its route runs, and leaves them in the reverse
\* order.
C7_MiddlewareOrder ==
    \A r \in Requests :
        Done(r) => req[r].trace =
            << <<"enter", "state_middleware">>, <<"enter", "span_middleware">>,
               <<"enter", "db_middleware">>, <<"leave", "db_middleware">>,
               <<"leave", "span_middleware">>, <<"leave", "state_middleware">> >>

Max(a, b) == IF a > b THEN a ELSE b
Elems(seq) == {seq[i] : i \in 1 .. Len(seq)}
\* The elements of seq at the positions [offset, offset + limit), counted
\* from 0.
Slice(seq, offset, limit) ==
    SubSeq(seq, offset + 1, Min(offset + limit, Len(seq)))
DistinctStamps(rows) ==
    \A a, b \in rows : a # b => a.created_at # b.created_at
PageSizes ==
    /\ Len(query.result) = Min(query.limit, Cardinality(query.rows))
    /\ Len(query.next) =
          Min(query.limit, Max(Cardinality(query.rows) - query.limit, 0))
NoOverlapNoGaps ==
    /\ Elems(query.result) \cap Elems(query.next) = {}
    /\ Cardinality(query.rows) <= 2 * query.limit
          => Elems(query.result) \cup Elems(query.next) = query.rows

\* C8: get_all returns the elements at positions [offset, offset + limit)
\* of the thoughts in created_at descending order, and two consecutive
\* pages have the sizes of the split, no overlap and no gaps.
C8_ExactSliceOfSorted ==
    /\ query.kind = "get_all"
          => \E ord \in order_by_created_at_desc(query.rows) :
                query.result = Slice(ord, query.offset, query.limit)
    /\ query.kind = "pages" => (PageSizes /\ NoOverlapNoGaps)

\* What get_all does guarantee: each call returns the slice of an
\* arrangement that is descending in created_at, pages have the sizes of
\* the split, and when the created_at values are pairwise distinct the
\* arrangement is the only one and consecutive pages neither overlap nor
\* leave gaps.
SliceOfDescendingOrder ==
    /\ query.kind = "get_all"
          => /\ \E ord \in order_by_created_at_desc(query.rows) :
                   query.result = Slice(ord, query.offset, query.limit)
             /\ DistinctStamps(query.rows)
                   => \A ord \in order_by_created_at_desc(query.rows) :
                         query.result = Slice(ord, query.offset, query.limit)
    /\ query.kind = "pages"
          => /\ PageSizes
             /\ DistinctStamps(query.rows) => NoOverlapNoGaps

C9_OwnSession ==
    /\ \A r1, r2 \in Requests :
          (r1 # r2 /\ req[r1].session # Null /\ req[r2].session # Null)
              => req[r1].session # req[r2].session
    /\ \A r \in Requests :
          req[r].session # Null
              => (/\ sess[req[r].session].owner = "request"
                  /\ sess[req[r].session].request = r)
    /\ \A s \in SessionIds : \A row \in sess[s].pending :
          row.via = sess[s].owner /\ row.request = sess[s].request

C9_RollbackConfined ==
    \A r \in Requests :
        (Leaving(r, "db_middleware") /\ req'[r].depth < req[r].depth)
            => (/\ committed' = committed
                /\ \A s \in SessionIds \ {req[r].session} :
                      sess'[s] = sess[s])

C10_Entity ==
    entity.ok
        => (/\ entity.entry.id # Null
            /\ entity.entry.content = entity.content
            /\ entity.entry.created_at # Null
            /\ entity.entry.updated_at # Null
            /\ \E row \in sess[entity.session].pending :
                  row.id = entity.entry.id /\ row.content = entity.content
            /\ \A row \in committed : row.id # entity.entry.id)

C10_RollbackDiscards ==
    \A s \in SessionIds :
        (sess[s].status = "open" /\ sess'[s].status = "closed")
            => committed' = committed

\* C10: Thought.create returns an entity with its id, created_at and
\* updated_at set and its content equal to the input, written in the
\* caller's transaction and not committed: the row is pending in the
\* caller's session, not in the table, and a caller that rolls back leaves
\* the table as it was.
C10_CreateFlushesOnly == []C10_Entity /\ [][C10_RollbackDiscards]_vars

C10_Witness ==
    /\ entity.ok
    /\ entity.content = "hello"
    /\ entity.entry.content = "hello"
    /\ \E row \in sess[entity.session].pending : row.id = entity.entry.id
    /\ committed # {}

\* The environment after the .env file was loaded into the one the process
\* started with.
Loaded == load_dotenv(process.environ, process.file)

\* C11: constructing Secrets loads the .env file before it reads the two
\* variables: the construction fails exactly when, after that load,
\* ANTHROPIC_API_KEY or OPENAI_API_KEY is not set or empty, and otherwise
\* the object holds exactly the values of the environment.
C11_SecretsLoadThenRead ==
    process.pc = "constructed"
        => /\ process.result.raised # None
                 <=> \E k \in SecretNames : not(Loaded[k])
           /\ process.result.raised = None
                 => /\ process.result.anthropic_api_key =
                          Loaded["ANTHROPIC_API_KEY"]
                    /\ process.result.openai_api_key =
                          Loaded["OPENAI_API_KEY"]
                    /\ process.result.environ = Loaded

\* C12: for every request that has passed db_middleware, async_db returns,
\* without failing, the session that middleware opened for the request;
\* likewise span and state return the span and the application state their
\* middleware attached.
C12_AccessorsReturnAttached ==
    \A r \in Requests :
        /\ Inside(r, "db_middleware")
              => (/\ async_db(req[r].state).ok
                  /\ async_db(req[r].state).value = req[r].session)
        /\ Inside(r, "span_middleware")
              => (span(req[r].state).ok /\ span(req[r].state).value = r)
        /\ Inside(r, "state_middleware")
              => (state(req[r].state).ok /\ state(req[r].state).value = 1)

====
